---- MODULE Spec2Model ----
(***************************************************************************)
(* The SDL shell of the raycaster (src/main_sdl.c): main() as a state      *)
(* machine whose program counter walks the statements of main, with        *)
(* draw_buffer and process_event translated from their bodies.             *)
(*                                                                         *)
(* The Game, the RayCasters and the Renderer live in other translation     *)
(* units; they appear here only through what main passes to them and what  *)
(* the specification says they return.                                     *)
(***************************************************************************)
EXTENDS Integers, Sequences, FiniteSets

(***************************************************************************)
(* Bounds of the exploration.                                              *)
(***************************************************************************)
\* performance-counter ticks one loop iteration may take (1..MaxTicks)
MaxTicks == 2
\* last performance-counter value explored by Spec (counter starts at 0)
MaxCounter == 3
\* last performance-counter value explored by SpecFPS
MaxFpsCounter == 63
\* events the SDL queue may hold when SDL_PollEvent pumps it
MaxQueue == 1
\* events queued at the start in SpecKeys and SpecQueue
MaxStartQueue == 3
\* counter frequencies explored: 256, 384, ... in MaxFreqStep steps of 128
MaxFreqStep == 2

(***************************************************************************)
(* Program constants.                                                      *)
(***************************************************************************)
\* "if (fpsCounter >= 60)"
FpsWindow == 60
\* "SDL_GetPerformanceFrequency() >> 8"
FreqShift == 8

\* from the smallest frequency for which frequency >> 8 is not zero, in steps
\* of half of it: multiples of 256 and others
Frequencies == { (2 + i) * 2 ^ (FreqShift - 1) : i \in 0..MaxFreqStep }

ShiftRight(x, k) == x \div (2 ^ k)

(***************************************************************************)
(* SDL events, reduced to the fields process_event reads.                  *)
(***************************************************************************)
KeySyms == {"SDLK_ESCAPE", "SDLK_UP", "SDLK_DOWN", "SDLK_LEFT", "SDLK_RIGHT",
            "SDLK_OTHER"}
KeyTypes == {"SDL_KEYDOWN", "SDL_KEYUP"}

QuitEvent == [type |-> "SDL_QUIT", repeat |-> 0, sym |-> "NONE"]
OtherEvent == [type |-> "SDL_OTHER", repeat |-> 0, sym |-> "NONE"]
\* SDL sets repeat only on key-down events
KeyEvents == [type : KeyTypes, repeat : {0}, sym : KeySyms]
                 \cup [type : {"SDL_KEYDOWN"}, repeat : {1}, sym : KeySyms]
Events == {QuitEvent, OtherEvent} \cup KeyEvents
\* the events of a session in which the user only closes the window
QuitOnlyEvents == {QuitEvent}
\* "SDL_Event event;" before the first successful SDL_PollEvent
NoEvent == [type |-> "UNSET", repeat |-> 0, sym |-> "NONE"]

\* the batches of new events SDL_PollEvent may pump into a queue q
Batches(evs, q, maxQ) ==
    { b \in UNION { [1..n -> evs] : n \in 0..maxQ } :
         Len(b) = 0 \/ Len(q) + Len(b) <= maxQ }

(***************************************************************************)
(* Pixel buffers, abstracted to what was written into them: the Game       *)
(* state the trace read and the value the FPS overlay shows.               *)
(***************************************************************************)
NoOverlay == -1
Uninitialised == [game |-> -1, fps |-> NoOverlay]
\* no texture: before SDL_CreateTexture, when it returned NULL, and after
\* SDL_DestroyTexture
NoTexture == [game |-> -2, fps |-> NoOverlay]
NoFrame == [left |-> NoTexture, right |-> NoTexture]

NoCaster == [st |-> "unset", constructs |-> 0, destructs |-> 0]
NoMove == [moveDirection |-> 0, rotateDirection |-> 0, seconds |-> -1]

VARIABLES
    pc,               \* the statement of main about to run
    perfFrequency,    \* what SDL_GetPerformanceFrequency() returns
    startQueue,       \* the events queued when the program starts
    eventQueue,       \* SDL's event queue
    sdlWindow,        \* "unset", "NULL", "live", "destroyed"
    sdlRenderer,      \* "unset", "NULL", "live", "destroyed"
    game,             \* the Game, as the number of GameMove updates applied
    floatCaster, fixedCaster,
    floatBuffer, fixedBuffer,
    moveDirection, rotateDirection, isExiting,
    tickFrequency, tickCounter, ticks,
    event,
    fpsCounter, fpsAccumulator, displayFPS,
    fixedTexture, floatTexture,
    backbuffer,       \* what SDL_RenderCopy put in the two halves
    screen,           \* what SDL_RenderPresent showed last
    \* history
    iterLog,          \* the calls of the current loop iteration, in order
    polls,            \* SDL_PollEvent calls so far
    frames,           \* SDL_RenderPresent calls so far
    lastMove,         \* the arguments of the last GameMove call
    sumElapsed,       \* the sum of the seconds arguments of all GameMove calls
    fpsMark           \* tickCounter and frame count at the last FPS reset

vars == << pc, perfFrequency, startQueue, eventQueue, sdlWindow, sdlRenderer, game,
           floatCaster, fixedCaster, floatBuffer, fixedBuffer,
           moveDirection, rotateDirection, isExiting,
           tickFrequency, tickCounter, ticks, event,
           fpsCounter, fpsAccumulator, displayFPS,
           fixedTexture, floatTexture, backbuffer, screen,
           iterLog, polls, frames, lastMove, sumElapsed, fpsMark >>

envVars == << perfFrequency, startQueue >>
sdlVars == << sdlWindow, sdlRenderer, fixedTexture, floatTexture, backbuffer, screen >>
casterVars == << floatCaster, fixedCaster >>
bufferVars == << floatBuffer, fixedBuffer >>
inputVars == << moveDirection, rotateDirection, isExiting, event, eventQueue, polls >>
timeVars == << tickFrequency, tickCounter, ticks, fpsCounter, fpsAccumulator,
               displayFPS, fpsMark >>
moveVars == << game, lastMove, sumElapsed >>

(***************************************************************************)
(* The external units, from the specification.                             *)
(***************************************************************************)
\* GameConstruct(): the starting pose, no update applied
GameConstruct == 0
\* GameMove(&game, ...): one more update applied to the Game
GameMove(g, md, rd, seconds) == g + 1
\* RayCaster{Float,Fixed}Construct(): a caster, or none when allocation fails
RayCasterConstruct == {"live", "NULL"}
\* RendererTraceFrame: overwrites every pixel of the buffer from the Game
RendererTraceFrame(g) == [game |-> g, fps |-> NoOverlay]
\* RendererDrawFPS: overlays the value on the corner of the buffer
RendererDrawFPS(buf, value) == [buf EXCEPT !.fps = value]
\* caster->Destruct(caster)
Destruct(c) == [c EXCEPT !.st = "freed", !.destructs = @ + 1]

\* the start of main, on a platform with one of the frequencies freqs and
\* with one of the queues already filled
StartState(freqs, queues) ==
    /\ pc = "SDL_Init"
    /\ perfFrequency \in freqs
    /\ startQueue \in queues
    /\ eventQueue = startQueue
    /\ sdlWindow = "unset"
    /\ sdlRenderer = "unset"
    /\ game = GameConstruct
    /\ floatCaster = NoCaster
    /\ fixedCaster = NoCaster
    /\ floatBuffer = Uninitialised
    /\ fixedBuffer = Uninitialised
    /\ moveDirection = 0
    /\ rotateDirection = 0
    /\ isExiting = FALSE
    /\ tickFrequency = 0
    /\ tickCounter = 0
    /\ ticks = 0
    /\ event = NoEvent
    /\ fpsCounter = 0
    /\ fpsAccumulator = 0
    /\ displayFPS = 0
    /\ fixedTexture = NoTexture
    /\ floatTexture = NoTexture
    /\ backbuffer = NoFrame
    /\ screen = NoFrame
    /\ iterLog = << >>
    /\ polls = 0
    /\ frames = 0
    /\ lastMove = NoMove
    /\ sumElapsed = 0
    /\ fpsMark = [counter |-> 0, frame |-> 0]

\* no event is queued before the window exists
Init == StartState(Frequencies, {<< >>})

(***************************************************************************)
(* main, lines 90-139: start-up.                                           *)
(***************************************************************************)
\* if (SDL_Init(SDL_INIT_VIDEO) < 0) { printf } else { ... }
SDLInit ==
    /\ pc = "SDL_Init"
    /\ \E ok \in BOOLEAN : pc' = IF ok THEN "SDL_CreateWindow" ELSE "SDL_Quit"
    /\ UNCHANGED << envVars, sdlVars, casterVars, bufferVars, inputVars,
                    timeVars, moveVars, iterLog, frames >>

\* sdlWindow = SDL_CreateWindow(...); if (sdlWindow == NULL) { printf } else { ... }
CreateWindow ==
    /\ pc = "SDL_CreateWindow"
    /\ \E w \in {"live", "NULL"} :
          /\ sdlWindow' = w
          /\ pc' = IF w = "NULL" THEN "SDL_Quit" ELSE "ConstructFloat"
    /\ UNCHANGED << envVars, sdlRenderer, fixedTexture, floatTexture,
                    backbuffer, screen, casterVars, bufferVars, inputVars,
                    timeVars, moveVars, iterLog, frames >>

\* Game game = GameConstruct(); floatCaster = RayCasterFloatConstruct();
\* floatRenderer = RendererConstruct(floatCaster); uint32_t floatBuffer[...];
ConstructFloat ==
    /\ pc = "ConstructFloat"
    /\ game' = GameConstruct
    /\ \E c \in RayCasterConstruct :
          floatCaster' = [floatCaster EXCEPT !.st = c, !.constructs = @ + 1]
    /\ floatBuffer' = Uninitialised
    /\ pc' = "ConstructFixed"
    /\ UNCHANGED << envVars, sdlVars, fixedCaster, fixedBuffer, inputVars,
                    timeVars, lastMove, sumElapsed, iterLog, frames >>

\* fixedCaster = RayCasterFixedConstruct();
\* fixedRenderer = RendererConstruct(fixedCaster); uint32_t fixedBuffer[...];
ConstructFixed ==
    /\ pc = "ConstructFixed"
    /\ \E c \in RayCasterConstruct :
          fixedCaster' = [fixedCaster EXCEPT !.st = c, !.constructs = @ + 1]
    /\ fixedBuffer' = Uninitialised
    /\ pc' = "Setup"
    /\ UNCHANGED << envVars, sdlVars, floatCaster, floatBuffer, inputVars,
                    timeVars, moveVars, iterLog, frames >>

\* lines 116-139: the locals of the loop, the SDL renderer and the textures.
\* The counter's first reading is taken as the origin 0.  None of the three
\* SDL_Create* results is checked: SDL_CreateRenderer may return NULL, and
\* SDL_CreateTexture returns NULL for a NULL renderer and may return NULL
\* for a live one.
Setup ==
    /\ pc = "Setup"
    /\ moveDirection' = 0
    /\ rotateDirection' = 0
    /\ isExiting' = FALSE
    /\ tickFrequency' = perfFrequency
    /\ tickCounter' = 0
    /\ fpsCounter' = 0
    /\ fpsAccumulator' = 0
    /\ displayFPS' = 0
    /\ \E r \in {"live", "NULL"} :
          /\ sdlRenderer' = r
          /\ fixedTexture' \in IF r = "NULL" THEN {NoTexture}
                                              ELSE {Uninitialised, NoTexture}
          /\ floatTexture' \in IF r = "NULL" THEN {NoTexture}
                                              ELSE {Uninitialised, NoTexture}
    /\ pc' = "LoopHead"
    /\ UNCHANGED << envVars, sdlWindow, backbuffer, screen, casterVars,
                    bufferVars, event, eventQueue, polls, ticks, fpsMark,
                    moveVars, iterLog, frames >>

(***************************************************************************)
(* draw_buffer, lines 17-42.  half is where dx puts the copy: "left" for   *)
(* dx = 0, "right" for dx = SCREEN_WIDTH + 1.  The result says whether     *)
(* the process exited, and what the texture and the backbuffer hold.       *)
(* SDL_LockTexture fails on a NULL texture, and may fail on a live one     *)
(* (lockFails).                                                            *)
(***************************************************************************)
draw_buffer(bb, texture, fb, half, lockFails) ==
    IF texture = NoTexture \/ lockFails
    THEN \* fprintf(stderr, "Unable to lock texture"); exit(1);
         [exits |-> TRUE, texture |-> texture, backbuffer |-> bb]
    ELSE \* memcpy(pixelsPtr, fb, ...); SDL_RenderCopy(..., &r);
         [exits |-> FALSE, texture |-> fb,
          backbuffer |-> IF half = "left" THEN [bb EXCEPT !.left = fb]
                                          ELSE [bb EXCEPT !.right = fb]]

\* process_event with the release of DOWN leaving moveDirection as it is
process_event_down_release_kept(e, md, rd) ==
    IF e.type = "SDL_QUIT"
    THEN [quit |-> TRUE, moveDirection |-> md, rotateDirection |-> rd]
    ELSE IF e.type \in {"SDL_KEYDOWN", "SDL_KEYUP"} /\ e.repeat = 0
    THEN LET p == e.type = "SDL_KEYDOWN"
         IN  CASE e.sym = "SDLK_ESCAPE" ->
                    [quit |-> TRUE, moveDirection |-> md, rotateDirection |-> rd]
               [] e.sym = "SDLK_UP" ->
                    [quit |-> FALSE, moveDirection |-> IF p THEN 1 ELSE 0,
                     rotateDirection |-> rd]
               [] e.sym = "SDLK_DOWN" ->
                    [quit |-> FALSE, moveDirection |-> IF p THEN -1 ELSE md,
                     rotateDirection |-> rd]
               [] e.sym = "SDLK_LEFT" ->
                    [quit |-> FALSE, moveDirection |-> md,
                     rotateDirection |-> IF p THEN -1 ELSE 0]
               [] e.sym = "SDLK_RIGHT" ->
                    [quit |-> FALSE, moveDirection |-> md,
                     rotateDirection |-> IF p THEN 1 ELSE 0]
               [] OTHER ->
                    [quit |-> FALSE, moveDirection |-> md, rotateDirection |-> rd]
    ELSE [quit |-> FALSE, moveDirection |-> md, rotateDirection |-> rd]

\* process_event without the test of the repeat flag
process_event_any_repeat(e, md, rd) ==
    IF e.type = "SDL_QUIT"
    THEN [quit |-> TRUE, moveDirection |-> md, rotateDirection |-> rd]
    ELSE IF e.type \in {"SDL_KEYDOWN", "SDL_KEYUP"}
    THEN LET p == e.type = "SDL_KEYDOWN"
         IN  CASE e.sym = "SDLK_ESCAPE" ->
                    [quit |-> TRUE, moveDirection |-> md, rotateDirection |-> rd]
               [] e.sym = "SDLK_UP" ->
                    [quit |-> FALSE, moveDirection |-> IF p THEN 1 ELSE 0,
                     rotateDirection |-> rd]
               [] e.sym = "SDLK_DOWN" ->
                    [quit |-> FALSE, moveDirection |-> IF p THEN -1 ELSE 0,
                     rotateDirection |-> rd]
               [] e.sym = "SDLK_LEFT" ->
                    [quit |-> FALSE, moveDirection |-> md,
                     rotateDirection |-> IF p THEN -1 ELSE 0]
               [] e.sym = "SDLK_RIGHT" ->
                    [quit |-> FALSE, moveDirection |-> md,
                     rotateDirection |-> IF p THEN 1 ELSE 0]
               [] OTHER ->
                    [quit |-> FALSE, moveDirection |-> md, rotateDirection |-> rd]
    ELSE [quit |-> FALSE, moveDirection |-> md, rotateDirection |-> rd]

\* process_event with ESCAPE quitting only when it is pressed, not when released
process_event_escape_press_only(e, md, rd) ==
    IF e.type = "SDL_QUIT"
    THEN [quit |-> TRUE, moveDirection |-> md, rotateDirection |-> rd]
    ELSE IF e.type \in {"SDL_KEYDOWN", "SDL_KEYUP"} /\ e.repeat = 0
    THEN LET p == e.type = "SDL_KEYDOWN"
         IN  CASE e.sym = "SDLK_ESCAPE" ->
                    [quit |-> p, moveDirection |-> md, rotateDirection |-> rd]
               [] e.sym = "SDLK_UP" ->
                    [quit |-> FALSE, moveDirection |-> IF p THEN 1 ELSE 0,
                     rotateDirection |-> rd]
               [] e.sym = "SDLK_DOWN" ->
                    [quit |-> FALSE, moveDirection |-> IF p THEN -1 ELSE 0,
                     rotateDirection |-> rd]
               [] e.sym = "SDLK_LEFT" ->
                    [quit |-> FALSE, moveDirection |-> md,
                     rotateDirection |-> IF p THEN -1 ELSE 0]
               [] e.sym = "SDLK_RIGHT" ->
                    [quit |-> FALSE, moveDirection |-> md,
                     rotateDirection |-> IF p THEN 1 ELSE 0]
               [] OTHER ->
                    [quit |-> FALSE, moveDirection |-> md, rotateDirection |-> rd]
    ELSE [quit |-> FALSE, moveDirection |-> md, rotateDirection |-> rd]

\* process_event with the arrow keys adding to the direction instead of setting it
process_event_accumulate(e, md, rd) ==
    IF e.type = "SDL_QUIT"
    THEN [quit |-> TRUE, moveDirection |-> md, rotateDirection |-> rd]
    ELSE IF e.type \in {"SDL_KEYDOWN", "SDL_KEYUP"} /\ e.repeat = 0
    THEN LET p == e.type = "SDL_KEYDOWN"
         IN  CASE e.sym = "SDLK_ESCAPE" ->
                    [quit |-> TRUE, moveDirection |-> md, rotateDirection |-> rd]
               [] e.sym = "SDLK_UP" ->
                    [quit |-> FALSE, moveDirection |-> md + (IF p THEN 1 ELSE 0),
                     rotateDirection |-> rd]
               [] e.sym = "SDLK_DOWN" ->
                    [quit |-> FALSE, moveDirection |-> md + (IF p THEN -1 ELSE 0),
                     rotateDirection |-> rd]
               [] e.sym = "SDLK_LEFT" ->
                    [quit |-> FALSE, moveDirection |-> md,
                     rotateDirection |-> rd + (IF p THEN -1 ELSE 0)]
               [] e.sym = "SDLK_RIGHT" ->
                    [quit |-> FALSE, moveDirection |-> md,
                     rotateDirection |-> rd + (IF p THEN 1 ELSE 0)]
               [] OTHER ->
                    [quit |-> FALSE, moveDirection |-> md, rotateDirection |-> rd]
    ELSE [quit |-> FALSE, moveDirection |-> md, rotateDirection |-> rd]

(***************************************************************************)
(* process_event, lines 50-81.  The result carries the return value and    *)
(* the two directions the function writes through its pointers.            *)
(***************************************************************************)
process_event(e, md, rd) ==
    IF e.type = "SDL_QUIT"
    THEN [quit |-> TRUE, moveDirection |-> md, rotateDirection |-> rd]
    ELSE IF e.type \in {"SDL_KEYDOWN", "SDL_KEYUP"} /\ e.repeat = 0
    THEN LET p == e.type = "SDL_KEYDOWN"
         IN  CASE e.sym = "SDLK_ESCAPE" ->
                    [quit |-> TRUE, moveDirection |-> md, rotateDirection |-> rd]
               [] e.sym = "SDLK_UP" ->
                    [quit |-> FALSE, moveDirection |-> IF p THEN 1 ELSE 0,
                     rotateDirection |-> rd]
               [] e.sym = "SDLK_DOWN" ->
                    [quit |-> FALSE, moveDirection |-> IF p THEN -1 ELSE 0,
                     rotateDirection |-> rd]
               [] e.sym = "SDLK_LEFT" ->
                    [quit |-> FALSE, moveDirection |-> md,
                     rotateDirection |-> IF p THEN -1 ELSE 0]
               [] e.sym = "SDLK_RIGHT" ->
                    [quit |-> FALSE, moveDirection |-> md,
                     rotateDirection |-> IF p THEN 1 ELSE 0]
               [] OTHER ->
                    [quit |-> FALSE, moveDirection |-> md, rotateDirection |-> rd]
    ELSE [quit |-> FALSE, moveDirection |-> md, rotateDirection |-> rd]

\* the FPS average with "fpsCounter > 60" for "fpsCounter >= 60"
UpdateFPSLate(counter, accumulator, display, frequency, t) ==
    LET acc == accumulator + t
        cnt == counter + 1
    IN  IF cnt > FpsWindow
        THEN [fpsCounter |-> 0, fpsAccumulator |-> 0,
              displayFPS |-> (frequency * cnt) \div acc]
        ELSE [fpsCounter |-> cnt, fpsAccumulator |-> acc, displayFPS |-> display]

(***************************************************************************)
(* Lines 169-177: the FPS average, given the ticks of this iteration.      *)
(* fpsAccumulator and the product are 64-bit and the result is cast to     *)
(* 32 bits; the values explored stay far below both widths.  Every         *)
(* iteration takes at least one tick, so the divisor is not zero.          *)
(***************************************************************************)
UpdateFPS(counter, accumulator, display, frequency, t) ==
    LET acc == accumulator + t
        cnt == counter + 1
    IN  IF cnt >= FpsWindow
        THEN [fpsCounter |-> 0, fpsAccumulator |-> 0,
              displayFPS |-> (frequency * cnt) \div acc]
        ELSE [fpsCounter |-> cnt, fpsAccumulator |-> acc, displayFPS |-> display]

\* the elapsed time with ">> 7" for ">> 8"
ElapsedTimeUnitsShift7(t, frequency) == t \div ShiftRight(frequency, FreqShift - 1)

\* line 184: ticks / (SDL_GetPerformanceFrequency() >> 8)
ElapsedTimeUnits(t, frequency) == t \div ShiftRight(frequency, FreqShift)

(***************************************************************************)
(* main, lines 142-185: the loop.                                          *)
(***************************************************************************)
\* the loop with its condition always true
LoopHeadForever ==
    /\ pc = "LoopHead"
    /\ pc' = "TraceFloat" /\ iterLog' = << >>
    /\ UNCHANGED << envVars, sdlVars, casterVars, bufferVars, inputVars,
                    timeVars, moveVars, frames >>

\* while (!isExiting)
LoopHead ==
    /\ pc = "LoopHead"
    /\ IF ~isExiting
       THEN pc' = "TraceFloat" /\ iterLog' = << >>
       ELSE pc' = "Cleanup" /\ UNCHANGED iterLog
    /\ UNCHANGED << envVars, sdlVars, casterVars, bufferVars, inputVars,
                    timeVars, moveVars, frames >>

\* the float trace with the GameMove call placed right after it
TraceFloatThenMove ==
    /\ pc = "TraceFloat"
    /\ iterLog' = iterLog \o << "traceFloat", "move" >>
    /\ IF floatCaster.st = "live"
       THEN floatBuffer' = RendererTraceFrame(game) /\ pc' = "TraceFixed"
       ELSE UNCHANGED floatBuffer /\ pc' = "abort"
    /\ LET seconds == (ticks \div ShiftRight(perfFrequency, FreqShift))
       IN  /\ game' = GameMove(game, moveDirection, rotateDirection, seconds)
           /\ lastMove' = [moveDirection |-> moveDirection,
                           rotateDirection |-> rotateDirection,
                           seconds |-> seconds]
           /\ sumElapsed' = sumElapsed + seconds
    /\ UNCHANGED << envVars, sdlVars, casterVars, fixedBuffer, inputVars,
                    timeVars, frames >>

\* RendererTraceFrame(&floatRenderer, &game, floatBuffer);
\* a renderer without a caster fails fast
TraceFloat ==
    /\ pc = "TraceFloat"
    /\ iterLog' = Append(iterLog, "traceFloat")
    /\ IF floatCaster.st = "live"
       THEN floatBuffer' = RendererTraceFrame(game) /\ pc' = "TraceFixed"
       ELSE UNCHANGED floatBuffer /\ pc' = "abort"
    /\ UNCHANGED << envVars, sdlVars, casterVars, fixedBuffer, inputVars,
                    timeVars, moveVars, frames >>

\* RendererTraceFrame(&fixedRenderer, &game, fixedBuffer);
TraceFixed ==
    /\ pc = "TraceFixed"
    /\ iterLog' = Append(iterLog, "traceFixed")
    /\ IF fixedCaster.st = "live"
       THEN fixedBuffer' = RendererTraceFrame(game) /\ pc' = "FpsFixed"
       ELSE UNCHANGED fixedBuffer /\ pc' = "abort"
    /\ UNCHANGED << envVars, sdlVars, casterVars, floatBuffer, inputVars,
                    timeVars, moveVars, frames >>

\* the first overlay drawn on floatBuffer, as the second one is
FpsFloatTwice ==
    /\ pc = "FpsFixed"
    /\ iterLog' = Append(iterLog, "fpsFloat")
    /\ floatBuffer' = RendererDrawFPS(floatBuffer, displayFPS)
    /\ pc' = "FpsFloat"
    /\ UNCHANGED << envVars, sdlVars, casterVars, fixedBuffer, inputVars,
                    timeVars, moveVars, frames >>

\* RendererDrawFPS(fixedBuffer, displayFPS);
FpsFixed ==
    /\ pc = "FpsFixed"
    /\ iterLog' = Append(iterLog, "fpsFixed")
    /\ fixedBuffer' = RendererDrawFPS(fixedBuffer, displayFPS)
    /\ pc' = "FpsFloat"
    /\ UNCHANGED << envVars, sdlVars, casterVars, floatBuffer, inputVars,
                    timeVars, moveVars, frames >>

\* RendererDrawFPS(floatBuffer, displayFPS);
FpsFloat ==
    /\ pc = "FpsFloat"
    /\ iterLog' = Append(iterLog, "fpsFloat")
    /\ floatBuffer' = RendererDrawFPS(floatBuffer, displayFPS)
    /\ pc' = "DrawFixed"
    /\ UNCHANGED << envVars, sdlVars, casterVars, fixedBuffer, inputVars,
                    timeVars, moveVars, frames >>

\* draw_buffer(sdlRenderer, fixedTexture, fixedBuffer, 0);
DrawFixed ==
    /\ pc = "DrawFixed"
    /\ iterLog' = Append(iterLog, "drawFixed")
    /\ \E lockFails \in BOOLEAN :
          LET r == draw_buffer(backbuffer, fixedTexture, fixedBuffer, "left", lockFails)
          IN  /\ fixedTexture' = r.texture
              /\ backbuffer' = r.backbuffer
              /\ pc' = IF r.exits THEN "exit1" ELSE "DrawFloat"
    /\ UNCHANGED << envVars, sdlWindow, sdlRenderer, floatTexture, screen,
                    casterVars, bufferVars, inputVars, timeVars, moveVars, frames >>

\* draw_buffer(sdlRenderer, floatTexture, floatBuffer, SCREEN_WIDTH + 1);
DrawFloat ==
    /\ pc = "DrawFloat"
    /\ iterLog' = Append(iterLog, "drawFloat")
    /\ \E lockFails \in BOOLEAN :
          LET r == draw_buffer(backbuffer, floatTexture, floatBuffer, "right", lockFails)
          IN  /\ floatTexture' = r.texture
              /\ backbuffer' = r.backbuffer
              /\ pc' = IF r.exits THEN "exit1" ELSE "Present"
    /\ UNCHANGED << envVars, sdlWindow, sdlRenderer, fixedTexture, screen,
                    casterVars, bufferVars, inputVars, timeVars, moveVars, frames >>

\* the present without the event handling after it
PresentSkipPoll ==
    /\ pc = "Present"
    /\ iterLog' = Append(iterLog, "present")
    /\ screen' = backbuffer
    /\ frames' = frames + 1
    /\ pc' = "Timing"
    /\ UNCHANGED << envVars, sdlWindow, sdlRenderer, fixedTexture,
                    floatTexture, backbuffer, casterVars, bufferVars, inputVars,
                    timeVars, moveVars >>

\* SDL_RenderPresent(sdlRenderer);
Present ==
    /\ pc = "Present"
    /\ iterLog' = Append(iterLog, "present")
    /\ screen' = backbuffer
    /\ frames' = frames + 1
    /\ pc' = "Poll"
    /\ UNCHANGED << envVars, sdlWindow, sdlRenderer, fixedTexture,
                    floatTexture, backbuffer, casterVars, bufferVars, inputVars,
                    timeVars, moveVars >>

\* the event handling as "while (SDL_PollEvent(&event))": every queued event
\* is processed in the same iteration
RECURSIVE DrainEvents(_, _)
DrainEvents(q, st) ==
    IF q = << >> THEN st
    ELSE LET r == process_event(Head(q), st.moveDirection, st.rotateDirection)
         IN  DrainEvents(Tail(q), [event |-> Head(q), quit |-> r.quit,
                                   moveDirection |-> r.moveDirection,
                                   rotateDirection |-> r.rotateDirection])

PollDrain(evs, maxQ) ==
    /\ pc = "Poll"
    /\ iterLog' = Append(iterLog, "poll")
    /\ polls' = polls + 1
    /\ \E b \in Batches(evs, eventQueue, maxQ) :
          LET r == DrainEvents(eventQueue \o b,
                               [event |-> event, quit |-> isExiting,
                                moveDirection |-> moveDirection,
                                rotateDirection |-> rotateDirection])
          IN  /\ event' = r.event
              /\ eventQueue' = << >>
              /\ isExiting' = r.quit
              /\ moveDirection' = r.moveDirection
              /\ rotateDirection' = r.rotateDirection
    /\ pc' = "Timing"
    /\ UNCHANGED << envVars, sdlVars, casterVars, bufferVars, timeVars,
                    moveVars, frames >>

\* if (SDL_PollEvent(&event)) isExiting = process_event(&event, &moveDirection,
\* &rotateDirection);   SDL_PollEvent pumps the new events (of evs, up to maxQ
\* queued) into the queue and takes the first one, if there is one.
Poll(evs, maxQ) ==
    /\ pc = "Poll"
    /\ iterLog' = Append(iterLog, "poll")
    /\ polls' = polls + 1
    /\ \E b \in Batches(evs, eventQueue, maxQ) :
          LET q == eventQueue \o b
          IN  IF q = << >>
              THEN /\ eventQueue' = q
                   /\ UNCHANGED << event, isExiting, moveDirection, rotateDirection >>
              ELSE LET r == process_event(Head(q), moveDirection, rotateDirection)
                   IN  /\ event' = Head(q)
                       /\ eventQueue' = Tail(q)
                       /\ isExiting' = r.quit
                       /\ moveDirection' = r.moveDirection
                       /\ rotateDirection' = r.rotateDirection
    /\ pc' = "Timing"
    /\ UNCHANGED << envVars, sdlVars, casterVars, bufferVars, timeVars,
                    moveVars, frames >>

\* lines 165-177: nextCounter = SDL_GetPerformanceCounter(); ticks = nextCounter
\* - tickCounter; tickCounter = nextCounter; then the FPS average.  The counter
\* advances by 1..MaxTicks per iteration and is explored up to maxC.
Timing(maxC) ==
    /\ pc = "Timing"
    /\ \E d \in 1..MaxTicks :
          LET nextCounter == tickCounter + d
              u == UpdateFPS(fpsCounter, fpsAccumulator, displayFPS, tickFrequency,
                             nextCounter - tickCounter)
          IN  /\ nextCounter <= maxC
              /\ ticks' = nextCounter - tickCounter
              /\ tickCounter' = nextCounter
              /\ fpsCounter' = u.fpsCounter
              /\ fpsAccumulator' = u.fpsAccumulator
              /\ displayFPS' = u.displayFPS
              /\ fpsMark' = IF u.fpsCounter = 0
                            THEN [counter |-> nextCounter, frame |-> frames]
                            ELSE fpsMark
    /\ pc' = "GameMove"
    /\ UNCHANGED << envVars, sdlVars, casterVars, bufferVars, inputVars,
                    tickFrequency, moveVars, iterLog, frames >>

\* the GameMove call with the teardown inside the loop body after it
GameMoveThenTeardown ==
    /\ pc = "GameMove"
    /\ iterLog' = Append(iterLog, "move")
    /\ LET seconds == ticks \div ShiftRight(perfFrequency, FreqShift)
       IN  /\ game' = GameMove(game, moveDirection, rotateDirection, seconds)
           /\ lastMove' = [moveDirection |-> moveDirection,
                           rotateDirection |-> rotateDirection,
                           seconds |-> seconds]
           /\ sumElapsed' = sumElapsed + seconds
    /\ pc' = "Cleanup"
    /\ UNCHANGED << envVars, sdlVars, casterVars, bufferVars, inputVars,
                    timeVars, frames >>

\* GameMove(&game, moveDirection, rotateDirection,
\*          ticks / (SDL_GetPerformanceFrequency() >> 8));
CallGameMove ==
    /\ pc = "GameMove"
    /\ iterLog' = Append(iterLog, "move")
    /\ LET seconds == ElapsedTimeUnits(ticks, perfFrequency)
       IN  /\ game' = GameMove(game, moveDirection, rotateDirection, seconds)
           /\ lastMove' = [moveDirection |-> moveDirection,
                           rotateDirection |-> rotateDirection,
                           seconds |-> seconds]
           /\ sumElapsed' = sumElapsed + seconds
    /\ pc' = "LoopHead"
    /\ UNCHANGED << envVars, sdlVars, casterVars, bufferVars, inputVars,
                    timeVars, frames >>

(***************************************************************************)
(* main, lines 187-200: teardown.                                          *)
(***************************************************************************)
\* SDL_DestroyTexture x 2; SDL_DestroyRenderer; SDL_DestroyWindow;
Cleanup ==
    /\ pc = "Cleanup"
    /\ floatTexture' = NoTexture
    /\ fixedTexture' = NoTexture
    /\ sdlRenderer' = IF sdlRenderer = "NULL" THEN "NULL" ELSE "destroyed"
    /\ sdlWindow' = "destroyed"
    /\ pc' = "DestructFloat"
    /\ UNCHANGED << envVars, backbuffer, screen, casterVars, bufferVars,
                    inputVars, timeVars, moveVars, iterLog, frames >>

\* floatCaster->Destruct(floatCaster);
DestructFloat ==
    /\ pc = "DestructFloat"
    /\ IF floatCaster.st = "NULL"
       THEN UNCHANGED floatCaster /\ pc' = "abort"
       ELSE floatCaster' = Destruct(floatCaster) /\ pc' = "DestructFixed"
    /\ UNCHANGED << envVars, sdlVars, fixedCaster, bufferVars, inputVars,
                    timeVars, moveVars, iterLog, frames >>

\* fixedCaster->Destruct(fixedCaster);
DestructFixed ==
    /\ pc = "DestructFixed"
    /\ IF fixedCaster.st = "NULL"
       THEN UNCHANGED fixedCaster /\ pc' = "abort"
       ELSE fixedCaster' = Destruct(fixedCaster) /\ pc' = "SDL_Quit"
    /\ UNCHANGED << envVars, sdlVars, floatCaster, bufferVars, inputVars,
                    timeVars, moveVars, iterLog, frames >>

\* SDL_Quit(); return 0;
SDLQuit ==
    /\ pc = "SDL_Quit"
    /\ pc' = "done"
    /\ UNCHANGED << envVars, sdlVars, casterVars, bufferVars, inputVars,
                    timeVars, moveVars, iterLog, frames >>


\* any event may arrive; a few iterations
Next ==
    \/ SDLInit \/ CreateWindow \/ ConstructFloat \/ ConstructFixed \/ Setup
    \/ LoopHead
    \/ TraceFloat \/ TraceFixed \/ FpsFixed \/ FpsFloat
    \/ DrawFixed \/ DrawFloat \/ Present
    \/ Poll(Events, MaxQueue)
    \/ Timing(MaxCounter)
    \/ CallGameMove
    \/ Cleanup \/ DestructFloat \/ DestructFixed \/ SDLQuit

Spec == Init /\ [][Next]_vars

\* the user only watches and closes the window; enough iterations for the
\* FPS average to be taken
NextFPS ==
    \/ SDLInit \/ CreateWindow \/ ConstructFloat \/ ConstructFixed \/ Setup
    \/ LoopHead
    \/ TraceFloat \/ TraceFixed \/ FpsFixed \/ FpsFloat
    \/ DrawFixed \/ DrawFloat \/ Present
    \/ Poll(QuitOnlyEvents, MaxQueue)
    \/ Timing(MaxFpsCounter)
    \/ CallGameMove
    \/ Cleanup \/ DestructFloat \/ DestructFixed \/ SDLQuit

SpecFPS == Init /\ [][NextFPS]_vars

(***************************************************************************)
(* Sessions whose events are all queued when the program starts: nothing   *)
(* is pumped later, so the events processed are a prefix of startQueue.    *)
(***************************************************************************)
ArrowSyms == {"SDLK_UP", "SDLK_DOWN", "SDLK_LEFT", "SDLK_RIGHT"}
ArrowEvents == [type : KeyTypes, repeat : {0}, sym : ArrowSyms]

\* is key k down after the key events of seq (all keys are up before them)
Held(seq, k) ==
    LET idx == { i \in 1..Len(seq) : seq[i].type \in KeyTypes /\ seq[i].repeat = 0
                                       /\ seq[i].sym = k }
    IN  /\ idx # {}
        /\ seq[CHOOSE i \in idx : \A j \in idx : j <= i].type = "SDL_KEYDOWN"

\* each key alternates press and release, starting with a press
WellFormed(seq) ==
    \A i \in 1..Len(seq) :
        (seq[i].type \in KeyTypes /\ seq[i].repeat = 0) =>
            (seq[i].type = "SDL_KEYDOWN" <=> ~Held(SubSeq(seq, 1, i - 1), seq[i].sym))

SeqsUpTo(evs, n) == UNION { [1..k -> evs] : k \in 0..n }

\* what a keyboard produces with the arrow keys, and the window's close button
KeyQueues ==
    { q \in SeqsUpTo(ArrowEvents \cup {QuitEvent}, MaxStartQueue) : WellFormed(q) }

\* the events SDL_PollEvent has handed to process_event so far
Processed == SubSeq(startQueue, 1, Len(startQueue) - Len(eventQueue))

InitKeys == StartState(Frequencies, KeyQueues)

NextKeys ==
    \/ SDLInit \/ CreateWindow \/ ConstructFloat \/ ConstructFixed \/ Setup
    \/ LoopHead
    \/ TraceFloat \/ TraceFixed \/ FpsFixed \/ FpsFloat
    \/ DrawFixed \/ DrawFloat \/ Present
    \/ Poll({}, 0)
    \/ Timing(MaxStartQueue)
    \/ CallGameMove
    \/ Cleanup \/ DestructFloat \/ DestructFixed \/ SDLQuit

SpecKeys == InitKeys /\ [][NextKeys]_vars

\* events that stand for the kinds process_event tells apart: two that quit,
\* a repeated ESCAPE that does not, an arrow key and an event of another type
QueueEvents ==
    { QuitEvent,
      [type |-> "SDL_KEYDOWN", repeat |-> 0, sym |-> "SDLK_ESCAPE"],
      [type |-> "SDL_KEYDOWN", repeat |-> 1, sym |-> "SDLK_ESCAPE"],
      [type |-> "SDL_KEYDOWN", repeat |-> 0, sym |-> "SDLK_UP"],
      OtherEvent }

\* the queues that hold a quit event
QuitQueues ==
    { q \in SeqsUpTo(QueueEvents, MaxStartQueue) :
         \E i \in 1..Len(q) : process_event(q[i], 0, 0).quit }

InitQueue == StartState(Frequencies, QuitQueues)

NextQueue ==
    \/ SDLInit \/ CreateWindow \/ ConstructFloat \/ ConstructFixed \/ Setup
    \/ LoopHead
    \/ TraceFloat \/ TraceFixed \/ FpsFixed \/ FpsFloat
    \/ DrawFixed \/ DrawFloat \/ Present
    \/ Poll({}, 0)
    \/ Timing(MaxStartQueue * MaxTicks)
    \/ CallGameMove
    \/ Cleanup \/ DestructFloat \/ DestructFixed \/ SDLQuit

\* main is one thread that runs until it returns or exits: its next
\* statement is always taken
SpecQueue == InitQueue /\ [][NextQueue]_vars /\ WF_vars(NextQueue)

(***************************************************************************)
(* Vocabulary of the properties.                                           *)
(***************************************************************************)
LoopPcs == {"LoopHead", "TraceFloat", "TraceFixed", "FpsFixed", "FpsFloat",
            "DrawFixed", "DrawFloat", "Present", "Poll", "Timing", "GameMove"}
RenderPcs == {"TraceFloat", "TraceFixed", "FpsFixed", "FpsFloat",
              "DrawFixed", "DrawFloat", "Present"}
Directions == {-1, 0, 1}

\* the calls of one complete iteration, in the order of lines 144-184
IterOrder == << "traceFloat", "traceFixed", "fpsFixed", "fpsFloat",
                "drawFixed", "drawFloat", "present", "poll", "move" >>

IsPrefix(s, t) == Len(s) <= Len(t) /\ \A i \in 1..Len(s) : s[i] = t[i]

\* every occurrence of b in the log has an a before it
Precedes(a, b, log) ==
    \A i \in 1..Len(log) : log[i] = b => \E j \in 1..(i - 1) : log[j] = a

Constructed(c) == c.constructs > 0 /\ c.st # "NULL"

(***************************************************************************)
(* C1: in every iteration both traces read the same Game state: no         *)
(* GameMove runs between the start of the float trace and the end of the   *)
(* fixed trace, and both traces are complete before either buffer is       *)
(* given to draw_buffer or presented.                                      *)
(***************************************************************************)
C1_TracesReadSameGame ==
    /\ pc \in {"TraceFixed"} => floatBuffer.game = game
    /\ pc \in {"FpsFixed", "FpsFloat", "DrawFixed", "DrawFloat", "Present"} =>
          floatBuffer.game = game /\ fixedBuffer.game = game
    /\ Precedes("traceFloat", "drawFixed", iterLog)
    /\ Precedes("traceFixed", "drawFixed", iterLog)
    /\ Precedes("traceFloat", "drawFloat", iterLog)
    /\ Precedes("traceFixed", "drawFloat", iterLog)
    /\ \A i \in 1..Len(iterLog) : \A j \in 1..Len(iterLog) :
          (iterLog[i] = "traceFloat" /\ iterLog[j] = "traceFixed") =>
             \A k \in (i + 1)..(j - 1) : iterLog[k] # "move"
    /\ screen # NoFrame => screen.left.game = screen.right.game
    /\ pc = "Present" => backbuffer.left.game = game /\ backbuffer.right.game = game

\* the second frame is on screen, both halves traced from the Game after one move
C1_Witness ==
    /\ frames = 2
    /\ screen.left.game = 1
    /\ screen.right.game = 1

(***************************************************************************)
(* C2 as stated: every trace of a frame, the first one included, has an    *)
(* input poll and then a GameMove call before it in the same iteration.    *)
(***************************************************************************)
C2_PollMoveBeforeTrace ==
    \A i \in 1..Len(iterLog) :
        iterLog[i] \in {"traceFloat", "traceFixed"} =>
            \E j \in 1..(i - 1) : \E k \in (j + 1)..(i - 1) :
                iterLog[j] = "poll" /\ iterLog[k] = "move"

(***************************************************************************)
(* C2 amended: every iteration runs trace, trace, overlay, overlay, draw,  *)
(* draw, present, poll, GameMove in that order; the first frame is traced  *)
(* and presented before any poll or GameMove, and every later frame comes  *)
(* after exactly one poll and one GameMove per earlier frame.              *)
(***************************************************************************)
C2_IterationOrder ==
    /\ IsPrefix(iterLog, IterOrder)
    /\ pc \in RenderPcs => polls = frames /\ game = frames
    /\ pc = "Poll" => polls = frames - 1 /\ game = frames - 1
    /\ pc = "Timing" => polls = frames /\ game = frames - 1
    /\ pc = "GameMove" => polls = frames /\ game = frames - 1
    /\ (pc \in RenderPcs /\ frames = 0) => lastMove = NoMove /\ event = NoEvent

\* a third iteration is complete
C2_Witness ==
    /\ pc = "LoopHead"
    /\ iterLog = IterOrder
    /\ game = 3 /\ polls = 3 /\ frames = 3

(***************************************************************************)
(* C3: on the normal exit and on the texture-lock failure exit, each       *)
(* RayCaster that was constructed has been released by Destruct exactly    *)
(* once when the process ends.                                             *)
(***************************************************************************)
C3_DestructOnEveryExit ==
    pc \in {"done", "exit1"} =>
        /\ Constructed(floatCaster) => floatCaster.destructs = 1
        /\ Constructed(fixedCaster) => fixedCaster.destructs = 1

(***************************************************************************)
(* C4: both Construct calls are made exactly once before the first loop    *)
(* iteration, Destruct is called on a caster only after the loop has       *)
(* ended, and no trace runs with a caster that was destructed.             *)
(***************************************************************************)
C4_CasterLifecycle ==
    /\ floatCaster.constructs <= 1 /\ fixedCaster.constructs <= 1
    /\ pc \in LoopPcs \cup {"Setup", "Cleanup", "DestructFloat", "DestructFixed",
                            "exit1", "abort"} =>
          floatCaster.constructs = 1 /\ fixedCaster.constructs = 1
    /\ (floatCaster.destructs > 0 \/ fixedCaster.destructs > 0) =>
          isExiting /\ pc \notin LoopPcs
    /\ pc \in LoopPcs =>
          floatCaster.st # "freed" /\ fixedCaster.st # "freed"
    /\ iterLog # << >> =>
          floatCaster.constructs = 1 /\ fixedCaster.constructs = 1

\* the loop ran, ended, and both casters were destructed
C4_Witness ==
    /\ pc = "done"
    /\ frames >= 1
    /\ floatCaster.st = "freed" /\ floatCaster.destructs = 1
    /\ fixedCaster.st = "freed" /\ fixedCaster.destructs = 1

(***************************************************************************)
(* C5: when a Construct call yields no caster, the process ends without    *)
(* entering the frame loop, so no trace or Destruct runs without a caster. *)
(***************************************************************************)
C5_ConstructFailureIsFatal ==
    (floatCaster.st = "NULL" \/ fixedCaster.st = "NULL") =>
        /\ pc \notin LoopPcs
        /\ iterLog = << >>

(***************************************************************************)
(* C6: whatever events process_event has processed, moveDirection and      *)
(* rotateDirection are in {-1, 0, 1}, and so are the direction arguments   *)
(* of every GameMove call.                                                 *)
(***************************************************************************)
C6_DirectionsInDomain ==
    /\ moveDirection \in Directions
    /\ rotateDirection \in Directions
    /\ lastMove.moveDirection \in Directions
    /\ lastMove.rotateDirection \in Directions

\* GameMove was called while DOWN and RIGHT were pressed
C6_Witness ==
    /\ lastMove # NoMove
    /\ lastMove.moveDirection = -1
    /\ lastMove.rotateDirection = 1
    /\ polls >= 2

(***************************************************************************)
(* C7: the sum of the elapsed-time arguments passed to GameMove depends    *)
(* only on the total of ticks elapsed, not on how the ticks are split      *)
(* into iterations: it is what one iteration of all the ticks would pass.  *)
(***************************************************************************)
C7_FrameRateIndependent ==
    pc = "LoopHead" => sumElapsed = ElapsedTimeUnits(tickCounter, perfFrequency)

(***************************************************************************)
(* C8: in every frame, for each buffer, RendererDrawFPS runs after the     *)
(* trace wrote the buffer and before draw_buffer copies it, so what is     *)
(* copied to a texture and presented always carries the overlay.           *)
(***************************************************************************)
C8_OverlayBetweenTraceAndDraw ==
    /\ pc = "DrawFixed" => fixedBuffer = [game |-> game, fps |-> displayFPS]
    /\ pc = "DrawFloat" => floatBuffer = [game |-> game, fps |-> displayFPS]
    /\ Precedes("traceFixed", "fpsFixed", iterLog)
    /\ Precedes("fpsFixed", "drawFixed", iterLog)
    /\ Precedes("traceFloat", "fpsFloat", iterLog)
    /\ Precedes("fpsFloat", "drawFloat", iterLog)
    /\ fixedTexture \notin {NoTexture, Uninitialised} => fixedTexture.fps # NoOverlay
    /\ floatTexture \notin {NoTexture, Uninitialised} => floatTexture.fps # NoOverlay
    /\ screen # NoFrame =>
          screen.left.fps # NoOverlay /\ screen.right.fps # NoOverlay

\* the second frame is on screen with the overlay on both halves
C8_Witness ==
    /\ frames = 2
    /\ screen.left = [game |-> 1, fps |-> 0]
    /\ screen.right = [game |-> 1, fps |-> 0]

(***************************************************************************)
(* C9 as stated: the elapsed-time argument ticks / (frequency >> 8) equals *)
(* (ticks * 256) / frequency for every tick count and every frequency      *)
(* >= 256.                                                                 *)
(***************************************************************************)
C9_ExactScale ==
    (pc = "LoopHead" /\ lastMove # NoMove) =>
        lastMove.seconds = (ticks * 256) \div perfFrequency

(***************************************************************************)
(* C9 amended: the argument equals (ticks * 256) / frequency when the      *)
(* frequency is a multiple of 256; for every other frequency >= 256 it is  *)
(* never smaller than that.                                                *)
(***************************************************************************)
C9_ScaleOfMultiples ==
    (pc = "LoopHead" /\ lastMove # NoMove) =>
        /\ perfFrequency % 256 = 0 =>
              lastMove.seconds = (ticks * 256) \div perfFrequency
        /\ lastMove.seconds >= (ticks * 256) \div perfFrequency

\* a two-tick iteration at 512 ticks per second passed 1
C9_Witness ==
    /\ pc = "LoopHead"
    /\ perfFrequency = 512
    /\ ticks = 2
    /\ lastMove.seconds = 1

(***************************************************************************)
(* C10: at the head of every iteration fpsCounter is in 0..59 and          *)
(* fpsAccumulator is the sum of the ticks since the last update;           *)
(* displayFPS changes only when 60 frames are accumulated, to              *)
(* tickFrequency * 60 / (the ticks of those 60 frames), and both           *)
(* accumulators are then 0; the first 60 frames are overlaid with 0.       *)
(***************************************************************************)
C10_AtLoopHead ==
    /\ pc = "LoopHead" =>
          /\ fpsCounter \in 0..(FpsWindow - 1)
          /\ fpsCounter = game - fpsMark.frame
          /\ fpsAccumulator = tickCounter - fpsMark.counter
    /\ (pc \in {"FpsFixed", "FpsFloat"} /\ frames < FpsWindow) => displayFPS = 0
    /\ frames < FpsWindow =>
          /\ fixedBuffer.fps \in {NoOverlay, 0}
          /\ floatBuffer.fps \in {NoOverlay, 0}
          /\ screen # NoFrame => screen.left.fps = 0 /\ screen.right.fps = 0

C10_DisplayChange ==
    displayFPS' # displayFPS =>
        /\ fpsCounter = FpsWindow - 1
        /\ frames - fpsMark.frame = FpsWindow
        /\ displayFPS' = (tickFrequency * FpsWindow) \div (tickCounter' - fpsMark.counter)
        /\ fpsCounter' = 0
        /\ fpsAccumulator' = 0

\* C10: the FPS average is taken over windows of 60 frames: the state at the
\* loop head and in the first 60 frames, and every change of displayFPS
C10_FpsAveraging == [](C10_AtLoopHead) /\ [][C10_DisplayChange]_vars

\* the 61st frame is overlaid with the average of 60 one-tick frames
C10_Witness ==
    /\ pc = "DrawFixed"
    /\ frames = FpsWindow
    /\ tickCounter = FpsWindow
    /\ displayFPS = perfFrequency
    /\ fixedBuffer.fps = perfFrequency

(***************************************************************************)
(* Vocabulary of the event properties.                                     *)
(***************************************************************************)
\* the events the claims call quit events
IsQuitEvent(e) ==
    \/ e.type = "SDL_QUIT"
    \/ e.type \in {"SDL_KEYDOWN", "SDL_KEYUP"} /\ e.repeat = 0 /\ e.sym = "SDLK_ESCAPE"

\* a key-down or key-up event that is not a repeat
IsKeyEvent(e) == e.type \in {"SDL_KEYDOWN", "SDL_KEYUP"} /\ e.repeat = 0

AfterLoopPcs == {"Cleanup", "DestructFloat", "DestructFixed"}

(***************************************************************************)
(* C11: process_event returns true exactly for SDL_QUIT and for a          *)
(* non-repeat key-down or key-up of ESCAPE; the loop is left if and only   *)
(* if such an event has been processed.                                    *)
(***************************************************************************)
C11_QuitExactly ==
    /\ isExiting <=> IsQuitEvent(event)
    /\ pc \in AfterLoopPcs => isExiting /\ IsQuitEvent(event)
    /\ IsQuitEvent(event) => pc \notin RenderPcs \cup {"Poll"}
    /\ (pc \in {"SDL_Quit", "done"} /\ frames > 0) => IsQuitEvent(event)

\* the release of ESCAPE ended the loop
C11_Witness ==
    /\ pc = "Cleanup"
    /\ event = [type |-> "SDL_KEYUP", repeat |-> 0, sym |-> "SDLK_ESCAPE"]
    /\ isExiting

(***************************************************************************)
(* C14: process_event changes neither direction on an event that is not a  *)
(* key event, on a repeated key event (a repeated ESCAPE does not quit     *)
(* either) and on a key other than the four arrows; UP and DOWN never      *)
(* change rotateDirection, LEFT and RIGHT never change moveDirection.      *)
(* Stated of every step that polls: event' is the event processed, or the  *)
(* old one when the queue was empty.                                       *)
(***************************************************************************)
C14_PollStep ==
    polls' = polls + 1 =>
        /\ ~IsKeyEvent(event') =>
              moveDirection' = moveDirection /\ rotateDirection' = rotateDirection
        /\ (event'.type = "SDL_KEYDOWN" /\ event'.repeat # 0) =>
              /\ moveDirection' = moveDirection
              /\ rotateDirection' = rotateDirection
              /\ ~isExiting'
        /\ event'.sym \notin {"SDLK_UP", "SDLK_DOWN", "SDLK_LEFT", "SDLK_RIGHT"} =>
              moveDirection' = moveDirection /\ rotateDirection' = rotateDirection
        /\ event'.sym \in {"SDLK_UP", "SDLK_DOWN"} => rotateDirection' = rotateDirection
        /\ event'.sym \in {"SDLK_LEFT", "SDLK_RIGHT"} => moveDirection' = moveDirection

\* C14: what process_event does not address stays as it was
C14_FrameOfProcessEvent == [][C14_PollStep]_vars

\* a repeated ESCAPE was processed while moving backwards and turning right:
\* the loop goes on with both directions kept
C14_Witness ==
    /\ pc = "Timing"
    /\ event = [type |-> "SDL_KEYDOWN", repeat |-> 1, sym |-> "SDLK_ESCAPE"]
    /\ ~isExiting
    /\ moveDirection = -1
    /\ rotateDirection = 1

(***************************************************************************)
(* C15: after the poll that reports quit nothing is traced, overlaid,      *)
(* drawn or presented any more; exactly one more GameMove (that of the     *)
(* same iteration) is called, then the loop ends and the teardown runs:    *)
(* textures, renderer and window, then floatCaster, then fixedCaster,      *)
(* then SDL_Quit.                                                          *)
(***************************************************************************)
C15_AfterQuit ==
    /\ isExiting =>
          /\ pc \in {"Timing", "GameMove", "LoopHead"} \cup AfterLoopPcs
                       \cup {"SDL_Quit", "done"}
          /\ frames = polls
          /\ screen.left.game = frames - 1 /\ screen.right.game = frames - 1
          /\ pc \in {"Timing", "GameMove"} => game = polls - 1
          /\ pc \notin {"Timing", "GameMove"} => game = polls /\ iterLog = IterOrder
    /\ pc = "Cleanup" =>
          /\ sdlWindow = "live" /\ sdlRenderer = "live"
          /\ floatCaster.destructs = 0 /\ fixedCaster.destructs = 0
    /\ pc = "DestructFloat" =>
          /\ sdlWindow = "destroyed" /\ sdlRenderer = "destroyed"
          /\ fixedTexture = NoTexture /\ floatTexture = NoTexture
          /\ floatCaster.destructs = 0 /\ fixedCaster.destructs = 0
    /\ pc = "DestructFixed" =>
          /\ sdlWindow = "destroyed"
          /\ floatCaster.destructs = 1 /\ fixedCaster.destructs = 0
    /\ (pc \in {"SDL_Quit", "done"} /\ isExiting) =>
          /\ sdlWindow = "destroyed" /\ sdlRenderer = "destroyed"
          /\ floatCaster.destructs = 1 /\ fixedCaster.destructs = 1

\* quit was reported in the second iteration: two frames, two GameMove calls,
\* teardown complete
C15_Witness ==
    /\ pc = "done"
    /\ isExiting
    /\ frames = 2 /\ polls = 2 /\ game = 2
    /\ floatCaster.st = "freed" /\ fixedCaster.st = "freed"

(***************************************************************************)
(* C12: after a well-formed sequence of non-repeat key events, when        *)
(* exactly one of UP and DOWN is held moveDirection is that key's          *)
(* direction, and when exactly one of LEFT and RIGHT is held               *)
(* rotateDirection is that key's direction.                                *)
(***************************************************************************)
C12_DirectionsFollowKeys ==
    LET up == Held(Processed, "SDLK_UP")
        down == Held(Processed, "SDLK_DOWN")
        left == Held(Processed, "SDLK_LEFT")
        right == Held(Processed, "SDLK_RIGHT")
    IN  /\ (up /\ ~down) => moveDirection = 1
        /\ (down /\ ~up) => moveDirection = -1
        /\ (left /\ ~right) => rotateDirection = -1
        /\ (right /\ ~left) => rotateDirection = 1

(***************************************************************************)
(* C13: after a well-formed sequence of non-repeat key events,             *)
(* moveDirection is 0 when neither UP nor DOWN is held and rotateDirection *)
(* is 0 when neither LEFT nor RIGHT is held.                               *)
(***************************************************************************)
C13_NoStuckMovement ==
    /\ WellFormed(Processed)
    /\ (~Held(Processed, "SDLK_UP") /\ ~Held(Processed, "SDLK_DOWN")) =>
          moveDirection = 0
    /\ (~Held(Processed, "SDLK_LEFT") /\ ~Held(Processed, "SDLK_RIGHT")) =>
          rotateDirection = 0

\* DOWN and LEFT were pressed, then DOWN was released: no move key is held
\* and the player stands, LEFT is held and the player still turns left
C13_Witness ==
    /\ Len(Processed) = 3
    /\ Processed[1].sym = "SDLK_DOWN" /\ Processed[1].type = "SDL_KEYDOWN"
    /\ Processed[2].sym = "SDLK_LEFT" /\ Processed[2].type = "SDL_KEYDOWN"
    /\ Processed[3].sym = "SDLK_DOWN" /\ Processed[3].type = "SDL_KEYUP"
    /\ moveDirection = 0 /\ rotateDirection = -1
    /\ pc = "GameMove"

(***************************************************************************)
(* C16: each iteration takes at most one event from the queue, the first   *)
(* one, and skips none; so, when texture locking does not fail, the first  *)
(* quit event of the queue is processed and the loop ends, after at least  *)
(* as many frames as there are events queued ahead of that quit event.     *)
(***************************************************************************)
\* position of the first quit event of a queue that holds one
FirstQuit(q) == CHOOSE i \in 1..Len(q) :
                   /\ IsQuitEvent(q[i])
                   /\ \A j \in 1..(i - 1) : ~IsQuitEvent(q[j])

HoldsQuit(q) == \E i \in 1..Len(q) : IsQuitEvent(q[i])

C16_PollStep ==
    /\ eventQueue' # eventQueue =>
          /\ pc = "Poll"
          /\ event' = Head(eventQueue)
          /\ eventQueue' = Tail(eventQueue)
    /\ (pc = "Poll" /\ pc' # pc /\ eventQueue # << >>) => eventQueue' = Tail(eventQueue)

C16_OnePerIteration ==
    /\ Len(Processed) <= polls
    /\ polls <= frames
    /\ (HoldsQuit(eventQueue) /\ pc \in LoopPcs) => Len(Processed) = polls
    /\ isExiting =>
          /\ Len(Processed) = FirstQuit(startQueue)
          /\ frames = FirstQuit(startQueue)
          /\ frames >= FirstQuit(startQueue) - 1
    /\ pc \in AfterLoopPcs => isExiting

C16_QuitEndsLoop ==
    (pc = "LoopHead" /\ HoldsQuit(eventQueue))
        ~> (pc \in AfterLoopPcs \cup {"exit1", "abort"})

\* C16: one event per iteration in queue order, and a queued quit event ends
\* the loop
C16_QueuedQuitTerminates ==
    /\ []C16_OnePerIteration
    /\ [][C16_PollStep]_vars
    /\ C16_QuitEndsLoop

\* two events were queued ahead of a quit event; the loop ended after the
\* third frame
C16_Witness ==
    /\ pc = "Cleanup"
    /\ Len(startQueue) = 3
    /\ FirstQuit(startQueue) = 3
    /\ frames = 3
    /\ event = startQueue[3]
====
